---- MODULE Spec2Model ----
(***************************************************************************)
(* Model of the jsopt node arena (src/src/node.c, src/include/jsopt/node.h) *)
(* One NodeArray, driven by one caller.  The record store is the mmap'ed   *)
(* region of NODE_MAX_NODES records; it is kept sparsely: an index that is *)
(* not in DOMAIN mem has never been written and reads as the all-zero      *)
(* record, as the anonymous mapping provides it.                           *)
(***************************************************************************)
EXTENDS Integers, Sequences, FiniteSets, TLC

VARIABLES nodes, mem, mapped, count, capacity, token_end, root, pc, rc, ret,
          last, steps

vars == <<nodes, mem, mapped, count, capacity, token_end, root, pc, rc, ret,
          last, steps>>

\* ---------------------------------------------------------------- widths
\* TLC's integers stop at 2^31 - 1, so a uint32_t is kept as its two 16-bit
\* halves <<hi, lo>> (value hi * 2^16 + lo) and the arithmetic below is the
\* usual limb arithmetic; uint8_t and uint16_t values are plain integers.
U8  == 256
U16 == 65536

\* The uint32_t with value n, for 0 <= n < 2^31.
U(n) == <<n \div U16, n % U16>>

UINT32_MAX == <<U16 - 1, U16 - 1>>

\* a + b in uint32_t arithmetic, and the carry out of bit 31.
Add32(a, b) ==
  LET lo == a[2] + b[2]
      hi == a[1] + b[1] + (lo \div U16)
  IN  <<hi % U16, lo % U16>>

Carry32(a, b) == (a[1] + b[1] + ((a[2] + b[2]) \div U16)) \div U16

\* a - b in uint32_t arithmetic.
Sub32(a, b) ==
  LET lo == a[2] - b[2]
      hi == a[1] - b[1] - (IF lo < 0 THEN 1 ELSE 0)
  IN  <<hi % U16, lo % U16>>

Lt32(a, b) == a[1] < b[1] \/ (a[1] = b[1] /\ a[2] < b[2])
Le32(a, b) == a = b \/ Lt32(a, b)

\* ------------------------------------------------------------- constants
NODE_NULL_IDX     == U(0)
NODE_LEN_OVERFLOW == 65535
NODE_MAX_NODES    == U(16777216)

\* Longest run of calls explored.
MaxSteps == 4

\* ---------------------------------------------------------------- inputs
\* Addresses mmap may hand out (never 0, never MAP_FAILED).
MapAddrs == {4096, 2097152}

\* Requested capacities passed to node_array_init.
InitCaps == {U(0), U(64), UINT32_MAX}

\* Contents of a NodeArray that was declared but not yet initialised.
UninitArenas ==
  { [nodes |-> 0, count |-> U(0), capacity |-> U(0), token_end |-> U(0),
     root |-> U(0)],
    [nodes |-> 48879, count |-> U(7), capacity |-> U(3), token_end |-> U(9),
     root |-> UINT32_MAX] }

\* <<kind, start, len, line>> passed to node_push_token.
TokenArgs ==
  { <<0, U(10), U(5), U(1)>>,
    <<2, U(100), U(70000), U(5)>>,
    <<2, U(0), U(65534), U(1)>>,
    <<2, U(0), U(65535), U(1)>>,
    <<127, UINT32_MAX, U(0), U(7)>>,
    <<0, UINT32_MAX, U(65534), U(2)>>,
    <<3, UINT32_MAX, U(65535), U(2)>>,
    <<1, Sub32(UINT32_MAX, U(295)), UINT32_MAX, UINT32_MAX>> }

\* <<kind, flags, op, start, d0, d1>> passed to node_push.
PushArgs ==
  { <<128, 0, 72, U(0), U(1), U(2)>>,
    <<128, 0, 0, U(0), U(0), U(0)>>,
    <<170, 3, 0, U(5), U(9999), U(0)>>,
    <<255, 255, 65535, UINT32_MAX, UINT32_MAX, UINT32_MAX>>,
    <<256, 128, 1, U(1), U(1), U(1)>> }

\* Slot counts passed to node_reserve.
ReserveArgs ==
  { U(0), U(1), U(5), U(16777214), U(16777215), U(16777216),
    Sub32(UINT32_MAX, U(1)), UINT32_MAX }

\* ---------------------------------------------------------------- records
ZeroNode ==
  [kind |-> 0, flags |-> 0, op |-> 0, start |-> U(0), d0 |-> U(0), d1 |-> U(0)]

\* Records a caller stores through NODE(arr, idx).
CallerNodes ==
  { [kind |-> 1, flags |-> 0, op |-> 3, start |-> U(20), d0 |-> U(2),
     d1 |-> U(0)],
    ZeroNode }

\* nodes[i] as a read sees it.
Read(i) == IF i \in DOMAIN mem THEN mem[i] ELSE ZeroNode

\* nodes[i] = r.
Write(m, i, r) == [j \in (DOMAIN m) \cup {i} |-> IF j = i THEN r ELSE m[j]]

EmptyMem == [j \in {} |-> ZeroNode]

NODE_VALID(idx) == idx # NODE_NULL_IDX

NODE_END(n) ==
  IF n.op = NODE_LEN_OVERFLOW THEN n.d1 ELSE Add32(n.start, U(n.op))

NODE_LEN(n) == Sub32(NODE_END(n), n.start)

\* ------------------------------------------------------------ node_array_init
\* Variant: the requested capacity is honoured instead of ignored.
InitFields_requested(cap) ==
  [count |-> U(1), capacity |-> cap, token_end |-> U(0), root |-> U(0)]

InitFields(cap) ==
  [count |-> U(1), capacity |-> NODE_MAX_NODES, token_end |-> U(0),
   root |-> U(0)]

\* Variant: no second attempt with ordinary pages.
MmapBuf_nofallback(hugeOk, regOk, addr) == IF hugeOk THEN addr ELSE -1

\* The two mmap attempts: hugeOk / regOk say whether each would succeed.
MmapBuf(hugeOk, regOk, addr) ==
  IF hugeOk THEN addr ELSE IF regOk THEN addr ELSE -1

node_array_init(cap, hugeOk, regOk, addr) ==
  /\ pc \in {"uninit", "freed"}
  /\ steps < MaxSteps
  /\ LET buf == MmapBuf(hugeOk, regOk, addr)
         f   == InitFields(cap)
     IN  IF buf = -1
         THEN /\ rc' = -1
              /\ UNCHANGED <<nodes, mem, mapped, count, capacity, token_end,
                             root, pc>>
         ELSE /\ nodes' = buf
              /\ mem' = EmptyMem
              /\ mapped' = mapped \cup {buf}
              /\ count' = f.count
              /\ capacity' = f.capacity
              /\ token_end' = f.token_end
              /\ root' = f.root
              /\ pc' = "live"
              /\ rc' = 0
  /\ last' = [op |-> "init", args |-> <<cap>>]
  /\ steps' = steps + 1
  /\ UNCHANGED ret

\* ------------------------------------------------------------ node_array_free
\* Variant: only the pointer and the two sizes are cleared.
ZeroArena_partial ==
  [nodes |-> 0, count |-> U(0), capacity |-> U(0), token_end |-> token_end,
   root |-> root]

\* memset(arr, 0, sizeof(*arr))
ZeroArena ==
  [nodes |-> 0, count |-> U(0), capacity |-> U(0), token_end |-> U(0),
   root |-> U(0)]

\* if (p) munmap(p, ...): the mappings left when p is released.
Munmap(m, p) == IF p # 0 THEN m \ {p} ELSE m

node_array_free ==
  /\ pc \in {"live", "freed"}
  /\ steps < MaxSteps
  /\ mapped' = Munmap(mapped, nodes)
  /\ nodes' = ZeroArena.nodes
  /\ mem' = EmptyMem
  /\ count' = ZeroArena.count
  /\ capacity' = ZeroArena.capacity
  /\ token_end' = ZeroArena.token_end
  /\ root' = ZeroArena.root
  /\ pc' = "freed"
  /\ last' = [op |-> "free", args |-> <<nodes>>]
  /\ steps' = steps + 1
  /\ UNCHANGED <<rc, ret>>

\* ------------------------------------------------------------ node_push_token
\* Variant: the inline threshold is off by one (len < 0xFFFE).
TokenOp_strict(len) == IF Lt32(len, U(65534)) THEN len[2] ELSE NODE_LEN_OVERFLOW

\* (len <= 0xFFFE) ? (uint16_t)len : NODE_LEN_OVERFLOW
TokenOp(len) == IF Le32(len, U(65534)) THEN len[2] ELSE NODE_LEN_OVERFLOW

\* Variant: the overflow path stores the length, not the end offset.
TokenData1_len(start, len) == IF Lt32(U(65534), len) THEN len ELSE U(0)

\* (len > 0xFFFE) ? (start + len) : 0
TokenData1(start, len) ==
  IF Lt32(U(65534), len) THEN Add32(start, len) ELSE U(0)

TokenNode(kind, start, len, line) ==
  [kind |-> kind % U8, flags |-> 0, op |-> TokenOp(len), start |-> start,
   d0 |-> line, d1 |-> TokenData1(start, len)]

\* Variant: the push also moves the token boundary.
node_push_token_marks(kind, start, len, line) ==
  /\ pc = "live"
  /\ steps < MaxSteps
  /\ IF Le32(capacity, count)
     THEN /\ pc' = "aborted"
          /\ UNCHANGED <<mem, count, ret, token_end>>
     ELSE /\ ret' = count
          /\ count' = Add32(count, U(1))
          /\ token_end' = Add32(count, U(1))
          /\ mem' = Write(mem, count, TokenNode(kind, start, len, line))
          /\ pc' = "live"
  /\ last' = [op |-> "push_token", args |-> <<kind, start, len, line>>]
  /\ steps' = steps + 1
  /\ UNCHANGED <<nodes, mapped, capacity, root, rc>>

node_push_token(kind, start, len, line) ==
  /\ pc = "live"
  /\ steps < MaxSteps
  /\ IF Le32(capacity, count)
     THEN /\ pc' = "aborted"
          /\ UNCHANGED <<mem, count, ret>>
     ELSE /\ ret' = count
          /\ count' = Add32(count, U(1))
          /\ mem' = Write(mem, count, TokenNode(kind, start, len, line))
          /\ pc' = "live"
  /\ last' = [op |-> "push_token", args |-> <<kind, start, len, line>>]
  /\ steps' = steps + 1
  /\ UNCHANGED <<nodes, mapped, capacity, token_end, root, rc>>

\* ------------------------------------------------------------------ node_push
\* Variant: flags cleared as node_push_token does.
PushNode_noflags(kind, flags, op, start, d0, d1) ==
  [kind |-> kind % U8, flags |-> 0, op |-> op, start |-> start,
   d0 |-> d0, d1 |-> d1]

PushNode(kind, flags, op, start, d0, d1) ==
  [kind |-> kind % U8, flags |-> flags, op |-> op, start |-> start,
   d0 |-> d0, d1 |-> d1]

node_push(kind, flags, op, start, d0, d1) ==
  /\ pc = "live"
  /\ steps < MaxSteps
  /\ IF Le32(capacity, count)
     THEN /\ pc' = "aborted"
          /\ UNCHANGED <<mem, count, ret>>
     ELSE /\ ret' = count
          /\ count' = Add32(count, U(1))
          /\ mem' = Write(mem, count, PushNode(kind, flags, op, start, d0, d1))
          /\ pc' = "live"
  /\ last' = [op |-> "push", args |-> <<kind, flags, op, start, d0, d1>>]
  /\ steps' = steps + 1
  /\ UNCHANGED <<nodes, mapped, capacity, token_end, root, rc>>

\* --------------------------------------------------------------- node_reserve
\* Variant: one slot too many is asked for (needed >= capacity is fatal).
ReserveNeeded_plus1(cnt, n) == Add32(Add32(cnt, n), U(1))

ReserveNeeded(cnt, n) == Add32(cnt, n)

node_reserve(n) ==
  /\ pc = "live"
  /\ steps < MaxSteps
  /\ IF Lt32(capacity, ReserveNeeded(count, n))
     THEN /\ pc' = "aborted"
          /\ UNCHANGED <<count, ret>>
     ELSE /\ ret' = count
          /\ count' = Add32(count, n)
          /\ pc' = "live"
  /\ last' = [op |-> "reserve", args |-> <<n>>]
  /\ steps' = steps + 1
  /\ UNCHANGED <<nodes, mem, mapped, capacity, token_end, root, rc>>

\* ----------------------------------------------- caller store through NODE()
\* The caller fills a slot it owns: an index below count, never the sentinel.
NodeStore(idx, r) ==
  /\ pc = "live"
  /\ steps < MaxSteps
  /\ NODE_VALID(idx)
  /\ Lt32(idx, count)
  /\ mem' = Write(mem, idx, r)
  /\ last' = [op |-> "store", args |-> <<idx>>]
  /\ steps' = steps + 1
  /\ UNCHANGED <<nodes, mapped, count, capacity, token_end, root, pc, rc, ret>>

\* ------------------------------------------------------------------------ EMIT
\* <<k, s, e, line>> passed to EMIT (line is lex->line).
EmitArgs ==
  { <<0, U(10), U(15), U(1)>>,
    <<2, U(100), U(70100), U(5)>>,
    <<2, U(7), U(65541), U(1)>>,
    <<3, UINT32_MAX, U(65534), U(2)>>,
    <<127, U(20), U(10), U(9)>> }

\* Variant: the operands of the subtraction are swapped.
EmitLen_swapped(s, e) == Sub32(s, e)

\* uint32_t _len = (e) - (s)
EmitLen(s, e) == Sub32(e, s)

EmitNode(k, s, e, line) ==
  [kind |-> k % U8, flags |-> 0,
   op |-> IF Le32(EmitLen(s, e), U(65534)) THEN EmitLen(s, e)[2]
                                          ELSE NODE_LEN_OVERFLOW,
   start |-> s, d0 |-> line,
   d1 |-> IF Lt32(U(65534), EmitLen(s, e)) THEN e ELSE U(0)]

\* The else branch calls node_push_token, which finds count >= capacity again
\* and aborts.
EMIT(k, s, e, line) ==
  /\ pc = "live"
  /\ steps < MaxSteps
  /\ IF Lt32(count, capacity)
     THEN /\ mem' = Write(mem, count, EmitNode(k, s, e, line))
          /\ count' = Add32(count, U(1))
          /\ pc' = "live"
     ELSE /\ pc' = "aborted"
          /\ UNCHANGED <<mem, count>>
  /\ last' = [op |-> "emit", args |-> <<k, s, e, line>>]
  /\ steps' = steps + 1
  /\ UNCHANGED <<nodes, mapped, capacity, token_end, root, rc, ret>>

\* ----------------------------------------------------------------------- flags
NODE_FLAG_ASYNC     == 1
NODE_FLAG_GENERATOR == 2
NODE_FLAG_CONST     == 4
NODE_FLAG_LET       == 8
NODE_FLAG_STATIC    == 16
NODE_FLAG_COMPUTED  == 32
NODE_FLAG_SHORTHAND == 64
NODE_FLAG_METHOD    == 128

NODE_FLAGS ==
  << NODE_FLAG_ASYNC, NODE_FLAG_GENERATOR, NODE_FLAG_CONST, NODE_FLAG_LET,
     NODE_FLAG_STATIC, NODE_FLAG_COMPUTED, NODE_FLAG_SHORTHAND,
     NODE_FLAG_METHOD >>

\* Bit b (0..7) of the byte x.
Bit(x, b) == (x \div (2 ^ b)) % 2

\* x | y and x & ~y on uint8_t, bit by bit.
Or8(x, y) ==
  LET o(b) == IF Bit(x, b) = 1 \/ Bit(y, b) = 1 THEN 2 ^ b ELSE 0
  IN  o(0) + o(1) + o(2) + o(3) + o(4) + o(5) + o(6) + o(7)

AndNot8(x, y) ==
  LET a(b) == IF Bit(x, b) = 1 /\ Bit(y, b) = 0 THEN 2 ^ b ELSE 0
  IN  a(0) + a(1) + a(2) + a(3) + a(4) + a(5) + a(6) + a(7)

\* Variant: the mask is assigned instead of or-ed in.
FlagSet_assign(flags, f) == f

\* n->flags |= f
FlagSet(flags, f) == Or8(flags, f)

\* n->flags &= ~f
FlagClear(flags, f) == AndNot8(flags, f)

\* The record r with its flags byte replaced.
WithFlags(r, fl) ==
  [kind |-> r.kind, flags |-> fl, op |-> r.op, start |-> r.start,
   d0 |-> r.d0, d1 |-> r.d1]

\* NODE(arr, idx)->flags |= f, on a slot the caller owns.
NodeSetFlag(idx, f) ==
  /\ pc = "live"
  /\ steps < MaxSteps
  /\ NODE_VALID(idx)
  /\ Lt32(idx, count)
  /\ mem' = Write(mem, idx, WithFlags(Read(idx), FlagSet(Read(idx).flags, f)))
  /\ last' = [op |-> "set_flag", args |-> <<idx, f>>]
  /\ steps' = steps + 1
  /\ UNCHANGED <<nodes, mapped, count, capacity, token_end, root, pc, rc, ret>>

\* NODE(arr, idx)->flags &= ~f, on a slot the caller owns.
NodeClearFlag(idx, f) ==
  /\ pc = "live"
  /\ steps < MaxSteps
  /\ NODE_VALID(idx)
  /\ Lt32(idx, count)
  /\ mem' = Write(mem, idx, WithFlags(Read(idx), FlagClear(Read(idx).flags, f)))
  /\ last' = [op |-> "clear_flag", args |-> <<idx, f>>]
  /\ steps' = steps + 1
  /\ UNCHANGED <<nodes, mapped, count, capacity, token_end, root, pc, rc, ret>>

\* ----------------------------------------------------- parser bookkeeping
\* arr->token_end = arr->count, when the parser takes over from the lexer.
SetTokenEnd ==
  /\ pc = "live"
  /\ steps < MaxSteps
  /\ token_end = U(0)
  /\ token_end' = count
  /\ last' = [op |-> "token_end", args |-> <<>>]
  /\ steps' = steps + 1
  /\ UNCHANGED <<nodes, mem, mapped, count, capacity, root, pc, rc, ret>>

\* arr->root = index of the node just pushed.
SetRoot ==
  /\ pc = "live"
  /\ steps < MaxSteps
  /\ last.op = "push"
  /\ root' = ret
  /\ last' = [op |-> "root", args |-> <<>>]
  /\ steps' = steps + 1
  /\ UNCHANGED <<nodes, mem, mapped, count, capacity, token_end, pc, rc, ret>>

\* ------------------------------------------------------------ specification
Init ==
  /\ \E a \in UninitArenas :
        /\ nodes = a.nodes
        /\ count = a.count
        /\ capacity = a.capacity
        /\ token_end = a.token_end
        /\ root = a.root
  /\ mem = EmptyMem
  /\ mapped = {}
  /\ pc = "uninit"
  /\ rc = 0
  /\ ret = U(0)
  /\ last = [op |-> "none", args |-> <<>>]
  /\ steps = 0

Next ==
  \/ \E cap \in InitCaps, hugeOk \in BOOLEAN, regOk \in BOOLEAN, addr \in MapAddrs :
        node_array_init(cap, hugeOk, regOk, addr)
  \/ node_array_free
  \/ \E t \in TokenArgs : node_push_token(t[1], t[2], t[3], t[4])
  \/ \E p \in PushArgs : node_push(p[1], p[2], p[3], p[4], p[5], p[6])
  \/ \E n \in ReserveArgs : node_reserve(n)
  \/ \E idx \in {U(1), U(2), Sub32(count, U(1))}, r \in CallerNodes : NodeStore(idx, r)
  \/ \E m \in EmitArgs : EMIT(m[1], m[2], m[3], m[4])
  \/ \E idx \in {Sub32(count, U(1))}, b \in 1..8 :
        NodeSetFlag(idx, NODE_FLAGS[b])
  \/ \E idx \in {Sub32(count, U(1))}, b \in 1..8 :
        NodeClearFlag(idx, NODE_FLAGS[b])
  \/ SetTokenEnd
  \/ SetRoot

Spec == Init /\ [][Next]_vars

\* ---------------------------------------------------- kind classification
NODE_EOF == 127

\* Variant: the upper bound of the operator range is inclusive.
IS_OPERATOR_incl(k) == k >= 72 /\ k <= 127

\* Variant: the end-of-input kind is left out of the tokens.
IS_TOKEN_strict(k) == k < 127

IS_LEAF(k)     == k < 16
IS_KEYWORD(k)  == k >= 16 /\ k < 56
IS_PUNCT(k)    == k >= 56 /\ k < 72
IS_OPERATOR(k) == k >= 72 /\ k < 127
IS_TOKEN(k)    == k <= 127
IS_COMPOUND(k) == k > 127

\* Every value of the 8-bit kind field.
Kinds == 0 .. (U8 - 1)

\* A caller holds a kind byte and evaluates the six macros on it.
InitKinds ==
  /\ nodes = 0
  /\ mem = EmptyMem
  /\ mapped = {}
  /\ count = U(0)
  /\ capacity = U(0)
  /\ token_end = U(0)
  /\ root = U(0)
  /\ pc = "uninit"
  /\ rc = 0
  /\ ret = U(0)
  /\ \E k \in Kinds : last = [op |-> "kind", args |-> <<k>>]
  /\ steps = 0

Classify ==
  /\ last.op = "kind"
  /\ LET k == last.args[1]
     IN  last' = [op |-> "classify",
                  args |-> <<k, IS_LEAF(k), IS_KEYWORD(k), IS_PUNCT(k),
                             IS_OPERATOR(k), IS_TOKEN(k), IS_COMPOUND(k)>>]
  /\ steps' = steps + 1
  /\ UNCHANGED <<nodes, mem, mapped, count, capacity, token_end, root, pc, rc,
                 ret>>

NextKinds == Classify

SpecKinds == InitKinds /\ [][NextKinds]_vars

\* ------------------------------------------------------------------ properties
AllocOps == {"push_token", "push", "reserve"}

\* The last call was `op` and it returned to the caller.
Returned(op) == pc = "live" /\ last.op = op

\* Number of slots the call recorded in l asks for.
Requested(l) == IF l.op = "reserve" THEN l.args[1] ELSE U(1)

\* cnt + n, taken as unbounded integers, is greater than cap.
Exceeds(cnt, n, cap) == Carry32(cnt, n) = 1 \/ Lt32(cap, Add32(cnt, n))

\* The step is an allocation call made on a live arena / one that returned.
AllocCall == pc = "live" /\ steps' = steps + 1 /\ last'.op \in AllocOps
AllocReturn == AllocCall /\ pc' = "live"

\* C1: after initialize, every index returned by push-token, push-compound or
\* reserve(n), n any uint32_t, is >= 1, i.e. satisfies NODE_VALID.
C1_NeverReturnsNull ==
  (pc = "live" /\ last.op \in AllocOps) => NODE_VALID(ret)

\* C2: a push that returns increments count by exactly 1 and a reserve(n) that
\* returns increments count by exactly n (no wrap-around); each returns the
\* pre-call count.
C2_CountAdvance ==
  [][AllocReturn =>
       /\ ret' = count
       /\ Carry32(count, Requested(last')) = 0
       /\ count' = Add32(count, Requested(last'))]_vars

\* C3: an allocation whose completion would take count beyond capacity
\* terminates the process instead of returning, and count <= capacity in every
\* state of a live arena.
C3_CapacityDiscipline ==
  /\ [](pc = "live" => Le32(count, capacity))
  /\ [][(AllocCall /\ Exceeds(count, Requested(last'), capacity))
          => pc' = "aborted"]_vars

\* C4: count is monotonic: no push-token, push-compound or reserve step between
\* initialize and destroy lowers count.
C4_CountMonotonic ==
  [][AllocReturn => Le32(count, count')]_vars

\* C5: in every state of a live arena the record at index 0 has every field
\* zero.
C5_SentinelZero ==
  pc = "live" => Read(NODE_NULL_IDX) = ZeroNode

\* C6: a successful initialize, whatever capacity is requested, leaves
\* count = 1, capacity = 2^24, token_end = 0, root = 0 and slot 0 all-zero.
C6_InitState ==
  (last.op = "init" /\ rc = 0) =>
     /\ pc = "live"
     /\ count = U(1)
     /\ capacity = U(16777216)
     /\ token_end = U(0)
     /\ root = U(0)
     /\ Read(U(0)) = ZeroNode

C6_Witness ==
  last.op = "init" /\ rc = 0 /\ last.args[1] = UINT32_MAX /\ steps > 1

\* C7: push-token(kind, start, len, line) stores flags = 0 and data[0] = line;
\* for len <= 65534 it stores op = len and data[1] = 0, otherwise op = 0xFFFF
\* and data[1] = start + len (the uint32_t sum).
C7_TokenEncoding ==
  Returned("push_token") =>
     LET n     == Read(ret)
         start == last.args[2]
         len   == last.args[3]
         line  == last.args[4]
     IN  /\ n.flags = 0
         /\ n.d0 = line
         /\ IF len[1] = 0 /\ len[2] <= 65534
            THEN U(n.op) = len /\ n.d1 = U(0)
            ELSE n.op = 65535 /\ n.d1 = Add32(start, len)

C7_Witness ==
  Returned("push_token") /\ last.args[3] = U(65534) /\ Read(ret).op = 65534

\* C8: for every token pushed with push-token(kind, start, L, line), NODE_LEN of
\* the stored record (token end minus start, in uint32_t arithmetic) equals L,
\* on the inline and on the overflow path, also when start + L passes 2^32 - 1.
C8_LenRoundTrip ==
  Returned("push_token") => NODE_LEN(Read(ret)) = last.args[3]

C8_Witness ==
  /\ Returned("push_token")
  /\ Read(ret).op = NODE_LEN_OVERFLOW
  /\ Carry32(last.args[2], last.args[3]) = 1
  /\ NODE_LEN(Read(ret)) = last.args[3]

\* C9: push-compound(kind, flags, op, start, d0, d1) with kind in 0..255 stores
\* the six fields exactly as passed.
C9_PushVerbatim ==
  (Returned("push") /\ last.args[1] \in 0..255) =>
     Read(ret) = [kind |-> last.args[1], flags |-> last.args[2],
                  op |-> last.args[3], start |-> last.args[4],
                  d0 |-> last.args[5], d1 |-> last.args[6]]

C9_Witness ==
  /\ Returned("push")
  /\ last.args[2] = 3
  /\ Lt32(count, last.args[5])
  /\ Read(ret).flags = 3

\* C10: every slot at an index >= count is all-zero in every state of a live
\* arena, and right after reserve(n) returns first every slot of
\* [first, first + n) is all-zero.
C10_ReservedZero ==
  pc = "live" =>
     /\ \A i \in DOMAIN mem : Le32(count, i) => mem[i] = ZeroNode
     /\ last.op = "reserve" =>
          \A i \in DOMAIN mem :
             (Le32(ret, i) /\ Lt32(Sub32(i, ret), last.args[1]))
                => mem[i] = ZeroNode

\* A call of the NodeArray API or of one of its macros is made in this step.
Call(op) == steps' = steps + 1 /\ last'.op = op

\* The five fields of the NodeArray structure.
Arena == <<nodes, count, capacity, token_end, root>>

\* C11: a record installed at index i (by a push or by a caller's store) is
\* left unchanged by every later push-token, push-compound and reserve call.
C11_IndexStability ==
  [][AllocCall => \A i \in DOMAIN mem : mem'[i] = mem[i]]_vars

\* C12: destroy leaves every arena field zero, and a destroy of an already
\* destroyed arena releases no mapping and leaves the fields as they were.
C12_DestroyIdempotent ==
  [][Call("free") =>
       /\ Arena' = <<0, U(0), U(0), U(0), U(0)>>
       /\ pc = "freed" => (mapped' = mapped /\ Arena' = Arena /\ pc' = "freed")
       /\ pc = "live" => mapped' = mapped \ {nodes}]_vars

C12_Witness ==
  last.op = "free" /\ last.args[1] = 0 /\ pc = "freed" /\ mapped = {}

\* Number of TRUE entries among the tuple of booleans t.
CountTrue(t) == Cardinality({j \in DOMAIN t : t[j]})

\* C13: for every kind k in 0..255 exactly one of leaf, keyword, punctuation,
\* operator, end-of-input (k = 127), compound holds.
C13_KindPartition ==
  last.op = "classify" =>
     LET a == last.args
     IN  CountTrue(<<a[2], a[3], a[4], a[5], a[1] = NODE_EOF, a[7]>>) = 1

C13_Witness ==
  last.op = "classify" /\ last.args[1] = 127 /\ ~last.args[5]

\* C14: leaf iff k in 0..15, keyword iff k in 16..55, punctuation iff k in
\* 56..71, operator iff k in 72..126, token iff k in 0..127, compound iff k in
\* 128..255; token is the negation of compound and holds exactly for leaf,
\* keyword, punctuation, operator and 127.
C14_KindRanges ==
  last.op = "classify" =>
     LET a == last.args
         k == a[1]
     IN  /\ a[2] <=> k \in 0 .. 15
         /\ a[3] <=> k \in 16 .. 55
         /\ a[4] <=> k \in 56 .. 71
         /\ a[5] <=> k \in 72 .. 126
         /\ a[6] <=> k \in 0 .. 127
         /\ a[7] <=> k \in 128 .. 255
         /\ a[6] <=> ~a[7]
         /\ a[6] <=> (a[2] \/ a[3] \/ a[4] \/ a[5] \/ k = 127)

C14_Witness ==
  last.op = "classify" /\ last.args[1] = 126 /\ last.args[5] /\ last.args[6]

\* C15: when reserve(n) has returned first and the next call is a push that
\* returns, the push returns first + n (no wrap-around).
C15_PushAfterReserve ==
  [][(Returned("reserve") /\ pc' = "live"
        /\ (Call("push_token") \/ Call("push")))
       => /\ Carry32(ret, last.args[1]) = 0
          /\ ret' = Add32(ret, last.args[1])]_vars

\* The bitwise or of the eight bytes of t.
OrAll(t) ==
  Or8(Or8(Or8(t[1], t[2]), Or8(t[3], t[4])), Or8(Or8(t[5], t[6]), Or8(t[7], t[8])))

\* Bit f (a power of two) of the byte x is set.
HasFlag(x, f) == (x \div f) % 2 = 1

\* C16: the eight flag masks are distinct single bits whose union is 0xFF, and
\* setting or clearing one of them on a record changes that bit only: the
\* other seven bits, the record's other fields and every other record stay.
C16_FlagBits ==
  [][(Call("set_flag") \/ Call("clear_flag")) =>
       LET idx == last'.args[1]
           f   == last'.args[2]
           old == Read(idx)
           new == mem'[idx]
           M   == {NODE_FLAGS[b] : b \in 1 .. 8}
       IN  /\ Cardinality(M) = 8
           /\ M = {2 ^ b : b \in 0 .. 7}
           /\ OrAll(NODE_FLAGS) = 255
           /\ HasFlag(new.flags, f) <=> last'.op = "set_flag"
           /\ \A g \in M \ {f} : HasFlag(new.flags, g) <=> HasFlag(old.flags, g)
           /\ new = WithFlags(old, new.flags)
           /\ \A j \in DOMAIN mem \ {idx} : mem'[j] = mem[j]
           /\ Arena' = Arena]_vars

C16_Witness ==
  /\ pc = "live"
  /\ last.op = "set_flag"
  /\ last.args[2] = NODE_FLAG_CONST
  /\ Read(last.args[1]).flags = 7
  /\ Read(last.args[1]).kind = 170

\* The <<kind, start, len, line>> a token push recorded in l stands for.
TokenCall(l) ==
  IF l.op = "emit"
  THEN <<l.args[1], l.args[2], Sub32(l.args[3], l.args[2]), l.args[4]>>
  ELSE l.args

\* C17: EMIT(lex, k, s, e) and push-token(k, s, e - s, lex.line) have the same
\* effect: with count < capacity the same record at the same index and the
\* same count, with count >= capacity fatal termination.
C17_EmitEquivalence ==
  [][(pc = "live" /\ (Call("emit") \/ Call("push_token"))) =>
       LET a == TokenCall(last')
       IN  IF Lt32(count, capacity)
           THEN /\ pc' = "live"
                /\ count' = Add32(count, U(1))
                /\ mem' = Write(mem, count, TokenNode(a[1], a[2], a[3], a[4]))
           ELSE /\ pc' = "aborted"
                /\ count' = count
                /\ mem' = mem]_vars

C17_Witness ==
  /\ pc = "live"
  /\ last.op = "emit"
  /\ Lt32(last.args[3], last.args[2])
  /\ Read(Sub32(count, U(1))).op = NODE_LEN_OVERFLOW
  /\ Read(Sub32(count, U(1))).d1 = last.args[3]

\* C18: push-token, push-compound and reserve leave capacity (2^24),
\* token_end, root and the base address alone; a push changes no slot but the
\* one at the pre-call count and reserve changes no slot.
C18_AllocFrame ==
  [][AllocCall =>
       /\ capacity' = capacity
       /\ capacity = U(16777216)
       /\ token_end' = token_end
       /\ root' = root
       /\ nodes' = nodes
       /\ mapped' = mapped
       /\ \A i \in DOMAIN mem' : i # count => (i \in DOMAIN mem /\ mem'[i] = mem[i])
       /\ last'.op = "reserve" => mem' = mem]_vars

C18_Witness ==
  /\ Returned("push_token")
  /\ token_end # U(0)
  /\ Lt32(token_end, count)
  /\ capacity = NODE_MAX_NODES

\* C19: when both mmap attempts fail initialize returns -1 and leaves every
\* field of the caller's structure as it was; when either succeeds it returns 0.
C19_InitFailure ==
  [][\A cap \in InitCaps, hugeOk \in BOOLEAN, regOk \in BOOLEAN,
        addr \in MapAddrs :
        node_array_init(cap, hugeOk, regOk, addr) =>
           IF ~hugeOk /\ ~regOk
           THEN rc' = -1 /\ Arena' = Arena /\ mapped' = mapped
           ELSE rc' = 0]_vars

C19_Witness ==
  /\ last.op = "init"
  /\ rc = -1
  /\ Arena = <<48879, U(7), U(3), U(9), UINT32_MAX>>

\* C20: reserve(1) and a push have the same outcome in every state of a live
\* arena: fatal exactly when count = capacity, otherwise both return the
\* pre-call count and leave count + 1, also when that is exactly capacity.
C20_ReserveOneAsPush ==
  [][(AllocCall /\ Requested(last') = U(1)) =>
       IF count = capacity
       THEN pc' = "aborted"
       ELSE pc' = "live" /\ ret' = count /\ count' = Add32(count, U(1))]_vars

C20_Witness ==
  /\ Returned("reserve")
  /\ last.args[1] = U(1)
  /\ count = capacity
  /\ ret = Sub32(capacity, U(1))

====
